---- MODULE Spec2Model ----
(***************************************************************************)
(* PapaDuck store-and-forward bridge (examples/1.Ducks/PapaDuck).          *)
(* The sketch's loop() is split at its four statements: the WiFi block,    *)
(* the MQTT block (setup_mqtt), duck.run() (which invokes the              *)
(* handleDuckData callback) and timer.tick().  The network, the broker,    *)
(* the mesh stack and the clock are the environment.                       *)
(***************************************************************************)
EXTENDS Integers, Sequences, FiniteSets, TLC

\* ---- program constants --------------------------------------------------
QUEUE_SIZE_MAX == 5
WifiRetryMs == 5000
MqttRetryMs == 1000
DUCK_ERR_NONE == 0
ReconnectErrors == {DUCK_ERR_NONE, -1}
use_auth_method == TRUE

\* ---- bounds of the model ------------------------------------------------
MaxPackets == 7
MaxFairPackets == 2
TimeStep == 1000

VARIABLES
  pc,             \* position of loop(): "wifi", "mqtt", "run", "tick"
  wifiConnected,  \* what duck.isWifiConnected() answers
  mqttConnected,  \* what client.connected() answers
  retry,          \* the global flag retry
  timer,          \* pending tasks of the timer: <<[expires, elapsed, kind]>>
  packetQueue,    \* the global std::queue, oldest first; a packet is its arrival number
  nextId,         \* arrival number of the next packet of the mesh stack
  published,      \* history: successful client.publish calls, in order
  sinceMqttFail,  \* history: ms since the last failed client.connect, -1 if none
  sinceWifiFail,  \* history: ms since the last failed duck.reconnectWifi, -1 if none
  mqttDue,        \* history: the timer of a failed client.connect has fired and
                  \*          the MQTT block has not run since
  step,           \* history: what the last step did
  topic,          \* the topic byte of the packet being routed
  topicString     \* what toTopicString answered for it

vars == <<pc, wifiConnected, mqttConnected, retry, timer, packetQueue, nextId,
          published, sinceMqttFail, sinceWifiFail, mqttDue, step, topic, topicString>>

bridgeVars == <<pc, wifiConnected, mqttConnected, retry, timer, packetQueue, nextId,
                published, sinceMqttFail, sinceWifiFail, mqttDue, step>>

routing == <<topic, topicString>>

Min(a, b) == IF a < b THEN a ELSE b

Range(s) == {s[i] : i \in 1..Len(s)}

Ids(log) == [i \in 1..Len(log) |-> log[i].id]

Tag(s, via) == [i \in 1..Len(s) |-> [id |-> s[i], via |-> via]]

NoStep == [op |-> "env", wifiTries |-> 0, mqttTries |-> 0, drains |-> 0, failAt |-> 0,
           tried |-> <<>>, sent |-> <<>>, evicted |-> <<>>, short |-> FALSE,
           printed |-> <<>>]

\* the entries a step appended to the history of publishes
NewlyPublished == SubSeq(published', Len(published) + 1, Len(published'))

StrictlyAscending(s) == \A i, j \in 1..Len(s) : i < j => s[i] < s[j]

OfVia(log, via) == Ids(SelectSeq(log, LAMBDA e : e.via = via))

\* ---- the program's functions ---------------------------------------------

\* the enumeration topics of the protocol headers
topics_status == 16
topics_cpm == 17
topics_sensor == 18
topics_alert == 19
topics_location == 20
topics_health == 21

\* the type byte
Byte == 0..255

\* (variant: the switch has no default label)
toTopicString_noDefault(t) ==
  CASE t = topics_status   -> "status"
    [] t = topics_cpm      -> "portal"
    [] t = topics_sensor   -> "sensor"
    [] t = topics_alert    -> "alert"
    [] t = topics_location -> "gps"
    [] t = topics_health   -> "health"
    [] OTHER               -> ""

\* toTopicString
toTopicString(t) ==
  CASE t = topics_status   -> "status"
    [] t = topics_cpm      -> "portal"
    [] t = topics_sensor   -> "sensor"
    [] t = topics_alert    -> "alert"
    [] t = topics_location -> "gps"
    [] t = topics_health   -> "health"
    [] OTHER               -> "status"

\* the buffers the mesh stack hands to the callback: shorter than the
\* minimum frame or not
PacketKinds == {"short", "frame"}

\* the decoder (CdpPacket): fails on a buffer shorter than the minimum frame
decodes(kind) == kind # "short"

\* client.publish answers false when the client is not connected
PublishOutcomes == IF mqttConnected THEN BOOLEAN ELSE {FALSE}

\* quackJson: 0 when client.publish succeeded, -1 otherwise
quackJson(ok) == IF ok THEN 0 ELSE -1

\* (variant: the new packet goes to the front)
enqueue_front(q, pkt) ==
  IF Len(q) > QUEUE_SIZE_MAX THEN <<pkt>> \o Tail(q) ELSE <<pkt>> \o q

\* the queue update of handleDuckData after a failed publish
enqueue(q, pkt) ==
  IF Len(q) > QUEUE_SIZE_MAX THEN Append(Tail(q), pkt) ELSE Append(q, pkt)

\* the packet handleDuckData pops, if any
evict(q) == IF Len(q) > QUEUE_SIZE_MAX THEN <<Head(q)>> ELSE <<>>

\* (variant: the packet is queued whatever quackJson answered)
handleQueue_always(q, pkt, rc) == enqueue(q, pkt)

\* (variant: the test of quackJson's result is inverted)
handleQueue_inverted(q, pkt, rc) == IF rc = 0 THEN enqueue(q, pkt) ELSE q

\* what handleDuckData prints about the queue after a failed publish
printNewSize(q) == <<[text |-> "New size of queue: ", n |-> Len(q)]>>

\* what publishQueue prints about the queue: a line after each pop
printQueueSize(q, popped) ==
  [i \in 1..popped |-> [text |-> "Queue size: ", n |-> Len(q) - i]]

\* the lines the sketch prints about the queue
QueueLines == {"New size of queue: ", "Queue size: "}

\* handleDuckData: the queue after the callback, given quackJson's result
handleQueue(q, pkt, rc) == IF rc = -1 THEN enqueue(q, pkt) ELSE q

\* publishQueue: the while loop; the n-th publish of the pass fails when
\* n = failAt (failAt = 0: none fails)
RECURSIVE publishQueue(_, _, _)

\* (variant: a packet whose publish failed is popped as well)
publishQueue_popFailed(q, n, failAt) ==
  IF q = <<>>
  THEN [queue |-> q, sent |-> <<>>, tried |-> <<>>]
  ELSE IF quackJson(n # failAt) = 0
       THEN LET r == publishQueue(Tail(q), n + 1, failAt)
            IN  [queue |-> r.queue,
                 sent  |-> <<Head(q)>> \o r.sent,
                 tried |-> <<Head(q)>> \o r.tried]
       ELSE [queue |-> Tail(q), sent |-> <<>>, tried |-> <<Head(q)>>]

\* (variant: the pass goes on with the next packet after a failed publish)
RECURSIVE publishQueue_goOn(_, _, _)
publishQueue_goOn(q, n, failAt) ==
  IF q = <<>>
  THEN [queue |-> q, sent |-> <<>>, tried |-> <<>>]
  ELSE LET r == publishQueue_goOn(Tail(q), n + 1, failAt)
       IN  IF quackJson(n # failAt) = 0
           THEN [queue |-> r.queue,
                 sent  |-> <<Head(q)>> \o r.sent,
                 tried |-> <<Head(q)>> \o r.tried]
           ELSE [queue |-> <<Head(q)>> \o r.queue,
                 sent  |-> r.sent,
                 tried |-> <<Head(q)>> \o r.tried]

\* (variant: an if in place of the while: one packet per pass)
publishQueue_once(q, n, failAt) ==
  IF q = <<>>
  THEN [queue |-> q, sent |-> <<>>, tried |-> <<>>]
  ELSE IF quackJson(n # failAt) = 0
       THEN [queue |-> Tail(q), sent |-> <<Head(q)>>, tried |-> <<Head(q)>>]
       ELSE [queue |-> q, sent |-> <<>>, tried |-> <<Head(q)>>]

publishQueue(q, n, failAt) ==
  IF q = <<>>
  THEN [queue |-> q, sent |-> <<>>, tried |-> <<>>]
  ELSE IF quackJson(n # failAt) = 0
       THEN LET r == publishQueue(Tail(q), n + 1, failAt)
            IN  [queue |-> r.queue,
                 sent  |-> <<Head(q)>> \o r.sent,
                 tried |-> <<Head(q)>> \o r.tried]
       ELSE [queue |-> q, sent |-> <<>>, tried |-> <<Head(q)>>]

\* timer.in(delay, enableRetry)
timerIn(t, delay, kind) == Append(t, [expires |-> delay, elapsed |-> 0, kind |-> kind])

\* a task is due when duration >= expires
Due(task) == task.elapsed >= task.expires

\* (variant: the handler leaves the flag as it is)
enableRetry_keep(r) == r

\* enableRetry
enableRetry(r) == TRUE

\* ---- Init ----------------------------------------------------------------
Init ==
  /\ pc = "wifi"
  /\ wifiConnected \in BOOLEAN
  /\ mqttConnected = FALSE
  /\ retry = TRUE
  /\ timer = <<>>
  /\ packetQueue = <<>>
  /\ nextId = 1
  /\ published = <<>>
  /\ sinceMqttFail = -1
  /\ sinceWifiFail = -1
  /\ mqttDue = FALSE
  /\ step = NoStep
  /\ topic = topics_status
  /\ topicString = toTopicString(topic)

\* ---- loop(): the WiFi block ----------------------------------------------

\* (variant: the timer is armed with the delay of the MQTT backoff)
LoopWifi_mqttDelay ==
  /\ pc = "wifi"
  /\ IF ~wifiConnected /\ retry
     THEN \E err \in ReconnectErrors :
            /\ IF err # DUCK_ERR_NONE
               THEN /\ retry' = FALSE
                    /\ timer' = timerIn(timer, MqttRetryMs, "wifi")
                    /\ sinceWifiFail' = 0
                    /\ UNCHANGED wifiConnected
               ELSE /\ wifiConnected' = TRUE
                    /\ UNCHANGED <<retry, timer, sinceWifiFail>>
            /\ step' = [NoStep EXCEPT !.op = "wifi", !.wifiTries = 1]
     ELSE /\ UNCHANGED <<wifiConnected, retry, timer, sinceWifiFail>>
          /\ step' = [NoStep EXCEPT !.op = "wifi"]
  /\ pc' = "mqtt"
  /\ UNCHANGED <<mqttConnected, packetQueue, nextId, published, sinceMqttFail, mqttDue>>
  /\ UNCHANGED routing

LoopWifi ==
  /\ pc = "wifi"
  /\ IF ~wifiConnected /\ retry
     THEN \E err \in ReconnectErrors :
            /\ IF err # DUCK_ERR_NONE
               THEN /\ retry' = FALSE
                    /\ timer' = timerIn(timer, WifiRetryMs, "wifi")
                    /\ sinceWifiFail' = 0
                    /\ UNCHANGED wifiConnected
               ELSE /\ wifiConnected' = TRUE
                    /\ UNCHANGED <<retry, timer, sinceWifiFail>>
            /\ step' = [NoStep EXCEPT !.op = "wifi", !.wifiTries = 1]
     ELSE /\ UNCHANGED <<wifiConnected, retry, timer, sinceWifiFail>>
          /\ step' = [NoStep EXCEPT !.op = "wifi"]
  /\ pc' = "mqtt"
  /\ UNCHANGED <<mqttConnected, packetQueue, nextId, published, sinceMqttFail, mqttDue>>
  /\ UNCHANGED routing

\* (variant: the delay is not passed on to the timer)
retry_mqtt_connection_noDelay(delay_ms) ==
  /\ retry' = FALSE
  /\ timer' = timerIn(timer, 0, "mqtt")

\* retry_mqtt_connection(delay_ms)
retry_mqtt_connection(delay_ms) ==
  /\ retry' = FALSE
  /\ timer' = timerIn(timer, delay_ms, "mqtt")

\* the drain of setup_mqtt: if (packetQueue.size() > 0) publishQueue();
DrainIfAny(failAt, tries) ==
  IF Len(packetQueue) > 0
  THEN LET r == publishQueue(packetQueue, 1, failAt)
       IN  /\ packetQueue' = r.queue
           /\ published' = published \o Tag(r.sent, "drain")
           /\ step' = [NoStep EXCEPT !.op = "mqtt", !.mqttTries = tries, !.drains = 1,
                                     !.failAt = failAt, !.tried = r.tried, !.sent = r.sent,
                                     !.printed = printQueueSize(packetQueue, Len(r.sent))]
  ELSE /\ failAt = 0
       /\ UNCHANGED <<packetQueue, published>>
       /\ step' = [NoStep EXCEPT !.op = "mqtt", !.mqttTries = tries]

\* (variant: no drain when the client is found connected)
setup_mqtt_noDrain(use_auth, c, failAt) ==
  IF mqttConnected
  THEN /\ c = TRUE
       /\ failAt = 0
       /\ step' = [NoStep EXCEPT !.op = "mqtt"]
       /\ UNCHANGED <<mqttConnected, retry, timer, sinceMqttFail, packetQueue, published>>
  ELSE /\ mqttConnected' = c
       /\ IF c
          THEN /\ DrainIfAny(failAt, 1)
               /\ sinceMqttFail' = -1
               /\ UNCHANGED <<retry, timer>>
          ELSE /\ failAt = 0
               /\ retry_mqtt_connection(MqttRetryMs)
               /\ sinceMqttFail' = 0
               /\ step' = [NoStep EXCEPT !.op = "mqtt", !.mqttTries = 1]
               /\ UNCHANGED <<packetQueue, published>>

\* (variant: a failed client.connect resets the queue)
setup_mqtt_dropQueue(use_auth, c, failAt) ==
  IF mqttConnected
  THEN /\ c = TRUE
       /\ DrainIfAny(failAt, 0)
       /\ UNCHANGED <<mqttConnected, retry, timer, sinceMqttFail>>
  ELSE /\ mqttConnected' = c
       /\ IF c
          THEN /\ DrainIfAny(failAt, 1)
               /\ sinceMqttFail' = -1
               /\ UNCHANGED <<retry, timer>>
          ELSE /\ failAt = 0
               /\ retry_mqtt_connection(MqttRetryMs)
               /\ sinceMqttFail' = 0
               /\ step' = [NoStep EXCEPT !.op = "mqtt", !.mqttTries = 1]
               /\ packetQueue' = <<>>
               /\ UNCHANGED published

\* setup_mqtt(use_auth); client.connect answers c, the failAt-th publish fails
setup_mqtt(use_auth, c, failAt) ==
  IF mqttConnected
  THEN /\ c = TRUE
       /\ DrainIfAny(failAt, 0)
       /\ UNCHANGED <<mqttConnected, retry, timer, sinceMqttFail>>
  ELSE /\ mqttConnected' = c
       /\ IF c
          THEN /\ DrainIfAny(failAt, 1)
               /\ sinceMqttFail' = -1
               /\ UNCHANGED <<retry, timer>>
          ELSE /\ failAt = 0
               /\ retry_mqtt_connection(MqttRetryMs)
               /\ sinceMqttFail' = 0
               /\ step' = [NoStep EXCEPT !.op = "mqtt", !.mqttTries = 1]
               /\ UNCHANGED <<packetQueue, published>>

\* ---- loop(): the MQTT block ----------------------------------------------
\* (variant: the MQTT block does not test retry)
LoopMqtt_noRetryTest ==
  /\ pc = "mqtt"
  /\ IF wifiConnected
     THEN \E c \in BOOLEAN, failAt \in 0..Len(packetQueue) :
            setup_mqtt(use_auth_method, c, failAt)
     ELSE /\ step' = [NoStep EXCEPT !.op = "mqtt"]
          /\ UNCHANGED <<mqttConnected, retry, timer, packetQueue, published, sinceMqttFail>>
  /\ pc' = "run"
  /\ mqttDue' = FALSE
  /\ UNCHANGED <<wifiConnected, nextId>>
  /\ UNCHANGED routing
  /\ UNCHANGED sinceWifiFail

LoopMqtt ==
  /\ pc = "mqtt"
  /\ IF wifiConnected /\ retry
     THEN \E c \in BOOLEAN, failAt \in 0..Len(packetQueue) :
            setup_mqtt(use_auth_method, c, failAt)
     ELSE /\ step' = [NoStep EXCEPT !.op = "mqtt"]
          /\ UNCHANGED <<mqttConnected, retry, timer, packetQueue, published, sinceMqttFail>>
  /\ pc' = "run"
  /\ mqttDue' = FALSE
  /\ UNCHANGED <<wifiConnected, nextId>>
  /\ UNCHANGED routing
  /\ UNCHANGED sinceWifiFail

\* ---- loop(): duck.run() invokes the callback for a received packet -------
handleDuckData ==
  /\ pc = "run"
  /\ nextId <= MaxPackets
  /\ \E ok \in PublishOutcomes, kind \in PacketKinds :
       LET rc == quackJson(ok) IN
         /\ published' = IF rc = 0
                         THEN Append(published, [id |-> nextId, via |-> "now"])
                         ELSE published
         /\ packetQueue' = handleQueue(packetQueue, nextId, rc)
         /\ step' = [NoStep EXCEPT !.op = "data", !.tried = <<nextId>>,
                        !.sent = IF rc = 0 THEN <<nextId>> ELSE <<>>,
                        !.evicted = IF rc = -1 THEN evict(packetQueue) ELSE <<>>,
                        !.short = ~decodes(kind),
                        !.printed = IF rc = -1
                                    THEN printNewSize(handleQueue(packetQueue, nextId, rc))
                                    ELSE <<>>]
  /\ nextId' = nextId + 1
  /\ UNCHANGED <<pc, wifiConnected, mqttConnected, retry, timer, sinceMqttFail, mqttDue>>
  /\ UNCHANGED routing
  /\ UNCHANGED sinceWifiFail

\* duck.run() returns
DuckRunReturn ==
  /\ pc = "run"
  /\ pc' = "tick"
  /\ step' = [NoStep EXCEPT !.op = "run"]
  /\ UNCHANGED <<wifiConnected, mqttConnected, retry, timer, packetQueue, nextId,
                 published, sinceMqttFail, mqttDue>>
  /\ UNCHANGED routing
  /\ UNCHANGED sinceWifiFail

\* ---- loop(): timer.tick() ------------------------------------------------
TimerTick ==
  /\ pc = "tick"
  /\ LET due == SelectSeq(timer, Due)
         rest == SelectSeq(timer, LAMBDA t : ~Due(t))
     IN  /\ retry' = IF due # <<>> THEN enableRetry(retry) ELSE retry
         /\ timer' = rest
         /\ mqttDue' = (mqttDue \/ \E i \in 1..Len(due) : due[i].kind = "mqtt")
         /\ step' = [NoStep EXCEPT !.op = IF due # <<>> THEN "fire" ELSE "tick"]
  /\ pc' = "wifi"
  /\ UNCHANGED <<wifiConnected, mqttConnected, packetQueue, nextId, published, sinceMqttFail>>
  /\ UNCHANGED routing
  /\ UNCHANGED sinceWifiFail

\* ---- the environment ------------------------------------------------------
\* millis() advances
Advance ==
  /\ timer' = [i \in 1..Len(timer) |->
                 [timer[i] EXCEPT !.elapsed = Min(@ + TimeStep, timer[i].expires)]]
  /\ sinceMqttFail' = IF sinceMqttFail < 0 THEN sinceMqttFail
                      ELSE Min(sinceMqttFail + TimeStep, MqttRetryMs)
  /\ sinceWifiFail' = IF sinceWifiFail < 0 THEN sinceWifiFail
                      ELSE Min(sinceWifiFail + TimeStep, WifiRetryMs)
  /\ <<timer', sinceMqttFail', sinceWifiFail'>> # <<timer, sinceMqttFail, sinceWifiFail>>
  /\ step' = NoStep
  /\ UNCHANGED <<pc, wifiConnected, mqttConnected, retry, packetQueue, nextId,
                 published, mqttDue>>
  /\ UNCHANGED routing

\* the local network goes away or comes back by itself
WifiChange ==
  /\ wifiConnected' = ~wifiConnected
  /\ step' = NoStep
  /\ UNCHANGED <<pc, mqttConnected, retry, timer, packetQueue, nextId, published,
                 sinceMqttFail, mqttDue>>
  /\ UNCHANGED routing
  /\ UNCHANGED sinceWifiFail

\* the broker connection is lost
MqttLost ==
  /\ mqttConnected
  /\ mqttConnected' = FALSE
  /\ step' = NoStep
  /\ UNCHANGED <<pc, wifiConnected, retry, timer, packetQueue, nextId, published,
                 sinceMqttFail, mqttDue>>
  /\ UNCHANGED routing
  /\ UNCHANGED sinceWifiFail

Next ==
  \/ LoopWifi
  \/ LoopMqtt
  \/ handleDuckData
  \/ DuckRunReturn
  \/ TimerTick
  \/ Advance
  \/ WifiChange
  \/ MqttLost

Spec == Init /\ [][Next]_vars

\* ---- the loop keeps running and the clock keeps advancing ------------------
NextFair ==
  \/ LoopWifi
  \/ LoopMqtt
  \/ (nextId <= MaxFairPackets /\ handleDuckData)
  \/ DuckRunReturn
  \/ TimerTick
  \/ Advance
  \/ WifiChange
  \/ MqttLost

Fairness ==
  /\ WF_vars(LoopWifi)
  /\ WF_vars(LoopMqtt)
  /\ WF_vars(DuckRunReturn)
  /\ WF_vars(TimerTick)
  /\ WF_vars(Advance)

SpecFair == Init /\ [][NextFair]_vars /\ Fairness

\* ---- the topic router on its own: every byte is routed --------------------
InitTopic ==
  /\ Init
  /\ wifiConnected = FALSE

Route ==
  /\ \E t \in Byte :
       /\ topic' = t
       /\ topicString' = toTopicString(t)
  /\ UNCHANGED bridgeVars

SpecTopic == InitTopic /\ [][Route]_vars

TypeOK ==
  /\ pc \in {"wifi", "mqtt", "run", "tick"}
  /\ wifiConnected \in BOOLEAN /\ mqttConnected \in BOOLEAN /\ retry \in BOOLEAN
  /\ nextId \in 1..(MaxPackets + 1)
  /\ Range(packetQueue) \subseteq 1..MaxPackets

\* ---- the claims -----------------------------------------------------------

\* C1: between operations the retention queue holds at most QUEUE_SIZE_MAX
\* packets.
C1_QueueWithinCapacity == Len(packetQueue) <= QUEUE_SIZE_MAX

\* C2: after QUEUE_SIZE_MAX + 1 arrivals into an empty queue, every publish
\* having failed, the queue holds exactly the last QUEUE_SIZE_MAX packets in
\* arrival order.
C2_LastNAfterOverflow ==
  (nextId = QUEUE_SIZE_MAX + 2 /\ published = <<>>)
     => packetQueue = [i \in 1..QUEUE_SIZE_MAX |-> i + 1]

\* C3 (as stated): a packet leaves the queue only in a step that published
\* that very packet successfully.
C3_RemovedOnlyWhenPublished ==
  [][\A p \in Range(packetQueue) \ Range(packetQueue') :
        p \in Range(Ids(NewlyPublished))]_vars

\* C3 (amended): a packet leaves the queue only in a step that published
\* that very packet successfully, or as the oldest packet, popped by
\* handleDuckData after a failed publish when the queue already holds more
\* than QUEUE_SIZE_MAX packets.
C3_RemovedWhenPublishedOrEvicted ==
  [][\A p \in Range(packetQueue) \ Range(packetQueue') :
        \/ p \in Range(Ids(NewlyPublished))
        \/ /\ nextId' = nextId + 1
           /\ NewlyPublished = <<>>
           /\ Len(packetQueue) > QUEUE_SIZE_MAX
           /\ p = Head(packetQueue)]_vars

\* a drain pass has published queued packets after packet 1 had been evicted
C3_Witness ==
  /\ step.drains = 1
  /\ step.sent # <<>>
  /\ nextId > 1
  /\ 1 \notin (Range(Ids(published)) \cup Range(packetQueue))

\* C4: no packet is published successfully twice, and a packet that has been
\* published is not (or no longer) in the queue.
C4_PublishedAtMostOnce ==
  /\ \A i, j \in 1..Len(published) : i # j => published[i].id # published[j].id
  /\ Range(packetQueue) \cap Range(Ids(published)) = {}

\* packets have been published both at once and from the queue, while others wait
C4_Witness ==
  /\ \E i, j \in 1..Len(published) :
        published[i].via = "now" /\ published[j].via = "drain"
  /\ packetQueue # <<>>

\* C5: a drain pass whose k-th publish is the first to fail publishes the
\* first k-1 queued packets in order, attempts the k-th and nothing after it,
\* and leaves the queue from the k-th packet on, in order.
C5_DrainStopsAtFailure ==
  [][(step'.drains = 1 /\ step'.failAt > 0) =>
        LET k == step'.failAt
            n == Len(packetQueue)
        IN  /\ step'.sent = SubSeq(packetQueue, 1, k - 1)
            /\ step'.tried = SubSeq(packetQueue, 1, k)
            /\ NewlyPublished = Tag(SubSeq(packetQueue, 1, k - 1), "drain")
            /\ packetQueue' = SubSeq(packetQueue, k, n)]_vars

\* a pass has failed at a packet that is neither the first nor the last
C5_Witness ==
  /\ step.drains = 1
  /\ step.failAt > 1
  /\ Len(packetQueue) > 1
  /\ Len(step.sent) = step.failAt - 1

\* C6: a drain pass in which every publish succeeds empties the queue and
\* publishes the queued packets in their order.
C6_DrainEmptiesQueue ==
  [][(step'.drains = 1 /\ step'.failAt = 0) =>
        /\ mqttConnected'
        /\ packetQueue' = <<>>
        /\ step'.tried = packetQueue
        /\ NewlyPublished = Tag(packetQueue, "drain")]_vars

\* one pass has published several packets and emptied the queue
C6_Witness ==
  /\ step.drains = 1
  /\ step.failAt = 0
  /\ Len(step.sent) >= 2
  /\ packetQueue = <<>>

\* C7 (as stated): packets are published in the order of their arrival.
C7_PublishedInArrivalOrder == StrictlyAscending(Ids(published))

\* C7 (amended): the packets published from the queue are published in the
\* order of their arrival, and so are the packets published at once; the
\* queue is in arrival order and holds only packets that arrived after those
\* already published from it.
C7_OrderWithinEachPath ==
  /\ StrictlyAscending(OfVia(published, "drain"))
  /\ StrictlyAscending(OfVia(published, "now"))
  /\ StrictlyAscending(OfVia(published, "drain") \o packetQueue)

\* a queued packet has been published after a later packet, and the queue has
\* delivered several packets
C7_Witness ==
  /\ Len(OfVia(published, "drain")) >= 2
  /\ \E i, j \in 1..Len(published) :
        i < j /\ published[i].id > published[j].id /\ published[j].via = "drain"

C9_DrainOnEveryConnectedTick ==
  [][(pc = "mqtt" /\ pc' = "run" /\ mqttConnected /\ packetQueue # <<>>)
        => step'.drains = 1]_vars

\* C10: handleDuckData leaves the queue alone when the publish succeeded and
\* appends the packet as the newest element when it failed.
C10_EnqueueIffPublishFailed ==
  [][nextId' = nextId + 1 =>
        IF NewlyPublished # <<>>
        THEN /\ NewlyPublished = <<[id |-> nextId, via |-> "now"]>>
             /\ packetQueue' = packetQueue
        ELSE /\ packetQueue' # <<>>
             /\ packetQueue'[Len(packetQueue')] = nextId
             /\ SubSeq(packetQueue', 1, Len(packetQueue') - 1)
                   \in {packetQueue} \cup
                       (IF packetQueue = <<>> THEN {} ELSE {Tail(packetQueue)})]_vars

\* a packet whose publish failed has joined a queue that held others
C10_Witness ==
  /\ step.op = "data"
  /\ step.sent = <<>>
  /\ Len(packetQueue) >= 2
  /\ packetQueue[Len(packetQueue)] = nextId - 1

\* C11: a received packet shorter than the minimum frame size is never
\* placed in the retention queue, whatever the connection state and the
\* outcome of the publish.
C11_ShortPacketNeverQueued ==
  [][(nextId' = nextId + 1 /\ step'.short) =>
        (packetQueue' = packetQueue /\ nextId \notin Range(packetQueue'))]_vars

\* C12: toTopicString answers the fixed name of each known topic code and
\* "status" for every other byte.
TopicNames ==
  (topics_status :> "status") @@ (topics_cpm :> "portal") @@ (topics_sensor :> "sensor")
    @@ (topics_alert :> "alert") @@ (topics_location :> "gps") @@ (topics_health :> "health")

C12_TopicRouting ==
  /\ topic \in DOMAIN TopicNames => topicString = TopicNames[topic]
  /\ topic \notin DOMAIN TopicNames => topicString = "status"

\* a byte that is no topic code has been routed to the default
C12_Witness ==
  /\ topic \in Byte \ DOMAIN TopicNames
  /\ topic > topics_health
  /\ topicString = "status"

\* C13: a pending backoff of the transport never keeps the loop from trying
\* to reconnect the local network, and a pending backoff of the local
\* network never keeps it from connecting the transport or draining the
\* queue.
C13_IndependentBackoffs ==
  [][/\ (pc = "wifi" /\ pc' = "mqtt" /\ ~wifiConnected
            /\ \A i \in 1..Len(timer) : timer[i].kind # "wifi")
        => step'.wifiTries = 1
     /\ (pc = "mqtt" /\ pc' = "run" /\ wifiConnected
            /\ \A i \in 1..Len(timer) : timer[i].kind # "mqtt")
        => IF mqttConnected
           THEN packetQueue # <<>> => step'.drains = 1
           ELSE step'.mqttTries = 1]_vars

\* C14: duck.reconnectWifi is not called again before 5000 ms have passed
\* since its last failure, whatever happened to the transport in between.
C14_WifiBackoff ==
  [][step'.wifiTries > 0 => (sinceWifiFail = -1 \/ sinceWifiFail >= WifiRetryMs)]_vars

\* reconnectWifi has been called again after a full backoff, a client.connect
\* having failed as well
C14_Witness ==
  /\ step.wifiTries = 1
  /\ sinceWifiFail >= WifiRetryMs
  /\ sinceMqttFail >= 0

\* C15: a failed client.connect and a failed duck.reconnectWifi leave the
\* queue as it was, and a packet that arrives during a backoff and cannot be
\* published is appended to the queue.
C15_ConnectFailureKeepsQueue ==
  [][/\ (step'.mqttTries = 1 /\ ~mqttConnected')
           => (packetQueue' = packetQueue /\ published' = published)
     /\ (step'.wifiTries = 1 /\ ~wifiConnected')
           => (packetQueue' = packetQueue /\ published' = published)
     /\ (retry /\ ~retry') => packetQueue' = packetQueue
     /\ (nextId' = nextId + 1 /\ ~retry /\ NewlyPublished = <<>>)
           => (packetQueue' # <<>> /\ packetQueue'[Len(packetQueue')] = nextId)]_vars

\* after a failed client.connect a packet has arrived during the backoff and
\* has been queued behind the others
C15_Witness ==
  /\ step.op = "data"
  /\ ~retry
  /\ timer # <<>>
  /\ step.sent = <<>>
  /\ Len(packetQueue) >= 3
  /\ packetQueue[Len(packetQueue)] = nextId - 1
  /\ sinceMqttFail >= 0

\* C16: once retry has been cleared it is set again: with the loop running
\* and the clock advancing, retry = false leads to retry = true.
C16_RetryComesBack == (~retry) ~> retry

\* the timer of a failed reconnectWifi has fired and set retry again
C16_Witness ==
  /\ step.op = "fire"
  /\ retry
  /\ timer = <<>>
  /\ sinceWifiFail >= WifiRetryMs

\* the local network is connected, the last client.connect and the last drain
\* pass did not fail, and the last step was not the arrival of a packet
Calm ==
  /\ wifiConnected
  /\ step.mqttTries = 1 => mqttConnected
  /\ step.drains = 1 => step.failAt = 0
  /\ step.op # "data"

\* C17: if from some point on the local network stays connected, connects and
\* publishes succeed and no packet arrives, the queue becomes empty and stays
\* so; and a step without an arrival takes packets off the queue only from
\* its head, publishing them in queue order.
C17_QueueDrainsWhenCalm ==
  /\ <>[]Calm => <>[](packetQueue = <<>>)
  /\ [][nextId' = nextId =>
          \E k \in 0..Len(packetQueue) :
             /\ packetQueue' = SubSeq(packetQueue, k + 1, Len(packetQueue))
             /\ NewlyPublished = Tag(SubSeq(packetQueue, 1, k), "drain")]_vars

\* a client.connect has succeeded and the pass after it has published the
\* whole queue
C17_Witness ==
  /\ step.drains = 1
  /\ step.failAt = 0
  /\ step.mqttTries = 1
  /\ Len(step.sent) >= 2
  /\ packetQueue = <<>>
  /\ wifiConnected /\ mqttConnected /\ retry

\* the packets popped by handleDuckData so far: those that arrived and are
\* neither published nor in the queue
Dropped == (nextId - 1) - Len(published) - Len(packetQueue)

\* C18: every eviction is counted or reported as a drop: the step that pops
\* an undelivered packet prints something else than the size of the queue.
C18_EvictionReported ==
  [][(nextId' = nextId + 1 /\ Dropped' > Dropped) =>
        \E i \in 1..Len(step'.printed) : step'.printed[i].text \notin QueueLines]_vars

\* C19: at most one timer task is pending and retry is false exactly when
\* one is; a task is armed only by the step that clears retry; while retry is
\* false nothing is attempted and nothing is armed; only the firing of the
\* task sets retry again, and it never fires while retry is set.
C19_OneTimerIffNoRetry ==
  /\ [](Len(timer) <= 1 /\ (retry <=> timer = <<>>))
  /\ [][/\ Len(timer') > Len(timer) => (retry /\ ~retry')
        /\ ~retry => /\ step'.wifiTries = 0
                     /\ step'.mqttTries = 0
                     /\ Len(timer') <= Len(timer)
        /\ (~retry /\ retry') => step'.op = "fire"
        /\ step'.op = "fire" => (~retry /\ retry')]_vars

\* the one task, armed by a failed client.connect, is due while retry is
\* still false
C19_Witness ==
  /\ pc = "tick"
  /\ ~retry
  /\ Len(timer) = 1
  /\ timer[1].kind = "mqtt"
  /\ Due(timer[1])

====
